---- MODULE Spec2Model ----
(***************************************************************************)
(* The Ouroboros Medium node (src/ouro_py/ouro_medium/main.py): the        *)
(* transaction buffer, the batch anchoring loop, the liveness monitor and  *)
(* the capacity advertiser, as the asyncio tasks that MediumNode.run       *)
(* gathers.  The tasks are cooperative: a task is suspended only at an     *)
(* await that really waits (a sleep, an HTTP exchange), so every action    *)
(* below is the code of one task between two such awaits.                  *)
(*                                                                         *)
(* A transaction record is represented by its id, the only field the node  *)
(* reads after storing the record.  uuid.uuid4() is modelled as a source   *)
(* of fresh ids (uuid_next).  time.time() is modelled by `now`, which      *)
(* advances with each sleep(30) of the liveness monitor.                   *)
(***************************************************************************)
EXTENDS Integers, Sequences, FiniteSets, TLC

\* ---------------------------------------------------------------- bounds

\* Number of records the model lets submit_tx store after Init.
MaxAccepts == 1

\* Number of health probes the model lets the monitor start.
MaxProbes == 3

\* Number of candidates the model lets a discovery response list.
MaxAds == 2

\* Number of times the model lets the Light node's watch loop wake.
MaxWatch == 2

\* Mempool lengths the model starts from.  Each is the state reached from
\* construction by that many valid submit_tx requests before the first
\* probe, cycle or advertisement (0 is the state right after __init__).
InitLens == {0, 99, 150}

\* ------------------------------------------------------ program constants

\* batch = self.mempool[:100]; self.mempool = self.mempool[100:]
ChunkSize == 100

\* "capacity_percent": max(0, 100 - len(self.mempool))
FullCapacity == 100

\* "transactions": self.mempool[-50:]
SnapshotSize == 50

\* self.synced_root_hash = str(root_hash)[:16]
RootPreview == 16

\* if ip and len(ip) < 40:  # sanity check
MaxIpLen == 40

\* ------------------------------------------------------------------ state

VARIABLES
    mempool,                \* self.mempool: sequence of transaction ids
    tx_count,               \* self.tx_count
    batches_submitted,      \* self.batches_submitted
    heavy_online,           \* self.heavy_online
    shadow_mode,            \* self.shadow_mode
    last_heavy_heartbeat,   \* self.last_heavy_heartbeat
    now,                    \* time.time(), in monitor intervals
    uuid_next,              \* the next id uuid.uuid4() yields
    pc_monitor,             \* monitor_heavy_nodes: "sleep" | "probing"
    pc_flush,               \* batch_flush: "sleep" | "posting"
    pc_adv,                 \* advertise_to_heavy: "sleep" | "posting"
    batch,                  \* batch_flush's chunk while its POST is in flight
    anchor_req,             \* the batch_anchor payload in flight, or NoReq
    adv_req,                \* the advertise payload in flight, or NoReq
    event,                  \* what the last step did
    budget,                 \* records the model still lets submit_tx store
    request,                \* the body of the /tx/submit request the last step
                            \* handled, or "none"
    response,               \* the answer the last step gave it, or NoResponse
    logged,                 \* the line the last step logged, or "none"
    snapshot,               \* the answer the last step gave a GET /mempool,
                            \* or NoSnapshot
    running,                \* the process exists
    lost,                   \* what was in memory when the process ended
    exit_timer,             \* shutdown's call_later(1, os._exit): "none" | "armed"
    \* authentication: the process's environment, its clients, the last request
    API_KEYS,               \* os.getenv("API_KEYS", ""), as text
    keys_head,              \* list(load_api_keys())[0] in this process
    app_keys,               \* app["api_keys"], loaded when run begins
    client_headers,         \* the Authorization headers clients send
    http,                   \* the route and header of the request the last
                            \* step served, or NoHttp
    \* _detect_public_addr, run once before the advertise loop
    net_env,                \* what resolution meets: PUBLIC_ADDR, the answers
                            \* of the two IP services, the socket, the hostname
    pc_resolve,             \* "start" | "svc1" | "svc2" | "done" | "raised"
    public_ip,              \* the address returned (<<>> until then)
    probes,                 \* history: the probes made, in order
    resolved_by,            \* history: the candidate that gave the address
    \* history, written by the actions and read only by the properties
    accepted,               \* ids answered {"status": "accepted"}
    anchored,               \* ids of the chunks answered HTTP 200, in order
    ok_responses,           \* number of batch_anchor POSTs answered HTTP 200
    pre_drain,              \* the mempool as the last drain found it
    flight_appends,         \* ids submit_tx appended since the last drain
    last_failed,            \* the chunk of the last submission, if it failed
    failed_root,            \* the batch_root that submission carried
    \* the Light node (src/ouro_py/ouro_light/main.py), a process of its own
    aggregator_addr,        \* self.aggregator_addr ("" is none)
    synced_block_height,    \* self.synced_block_height
    synced_root_hash,       \* self.synced_root_hash
    last_sync_time,         \* self.last_sync_time
    anchors_verified,       \* self.anchors_verified
    light_now,              \* the Light node's time.time(), in watch intervals
    pc_watch,               \* watch_anchors: "start" | "init_sync" |
                            \* "init_discover" | "sleep" | "sync" | "discover"
    light_event,            \* what the Light node's last step did
    \* history of the Light node
    discovered,             \* the last discovery exchange: outcome and body
    prior_addr,             \* aggregator_addr as that exchange found it
    sync_seen               \* the sync exchange the last step ended: outcome
                            \* and body, or NoSync

light_vars == <<aggregator_addr, synced_block_height, synced_root_hash,
                last_sync_time, anchors_verified, light_now, pc_watch,
                light_event, discovered, prior_addr, sync_seen>>

resolver_vars == <<net_env, pc_resolve, public_ip, probes, resolved_by>>

\* What the Medium node's process is started with and is sent.
access_vars == <<API_KEYS, keys_head, app_keys, client_headers>>

vars == <<mempool, tx_count, batches_submitted, heavy_online, shadow_mode,
          last_heavy_heartbeat, now, uuid_next, pc_monitor, pc_flush, pc_adv,
          batch, anchor_req, adv_req, event, budget, accepted, anchored, ok_responses,
          pre_drain, flight_appends, last_failed, failed_root, request,
          response, logged,
          running, lost, exit_timer, snapshot, access_vars, http,
          resolver_vars, light_vars>>

node_vars == <<mempool, tx_count, batches_submitted, heavy_online,
               shadow_mode, last_heavy_heartbeat>>

\* The state of the other processes.
elsewhere_vars == <<light_vars>>

history_vars == <<accepted, anchored, ok_responses, pre_drain,
                  flight_appends, last_failed, failed_root>>

\* The state of the Medium node's handlers and loops.
served_vars == <<node_vars, now, uuid_next, pc_monitor, pc_flush, pc_adv,
                 batch, anchor_req, adv_req, event, budget, request, response,
                 logged, snapshot, running, lost, exit_timer, history_vars,
                 access_vars, http>>

\* The state of the Medium node's process.
medium_vars == <<served_vars, resolver_vars>>

NoReq == [kind |-> "none"]

\* No submission has failed: there is no batch_root of a failed chunk.
NoRoot == [sha256 |-> <<>>]

\* A record without an id field (ids are 1, 2, ...).
NoId == 0

\* The last step answered no /tx/submit request.
NoResponse == [status |-> 0, body |-> "none", tx_id |-> NoId]

\* Nothing of the process's memory has been lost: it is running.
NothingLost == [chunk |-> <<>>, buffered |-> <<>>]

\* The last step answered no GET /mempool.
NoSnapshot == [count |-> 0, transactions |-> <<>>, given |-> FALSE]

\* What the step gives out: the request it handled, its answer, its log
\* line; it is not get_mempool, so it gives no snapshot.
Out(req, resp, line) ==
    /\ request' = req
    /\ response' = resp
    /\ logged' = line
    /\ snapshot' = NoSnapshot

\* The step is one of the running process, which goes on running; it is not
\* the shutdown handler, so no exit is scheduled by it; the address was
\* resolved before the loops began.
Alive ==
    /\ running
    /\ UNCHANGED <<running, lost, exit_timer, access_vars, resolver_vars,
                   elsewhere_vars>>

\* ---------------------------------------------------------------- helpers

Min(a, b) == IF a < b THEN a ELSE b

Max(a, b) == IF a > b THEN a ELSE b

Range(s) == {s[i] : i \in 1..Len(s)}

\* Number of positions of s that hold x.
Occ(s, x) == Cardinality({i \in 1..Len(s) : s[i] = x})

IsPrefix(p, s) == Len(p) <= Len(s) /\ SubSeq(s, 1, Len(p)) = p

\* Text is a sequence of characters; " " stands for any whitespace.
RECURSIVE LStrip(_)
LStrip(t) == IF t # <<>> /\ Head(t) = " " THEN LStrip(Tail(t)) ELSE t

RECURSIVE RStrip(_)
RStrip(t) ==
    IF t # <<>> /\ t[Len(t)] = " " THEN RStrip(SubSeq(t, 1, Len(t) - 1)) ELSE t

\* str.strip()
Strip(t) == RStrip(LStrip(t))

\* The outcomes of an HTTP exchange with the Heavy node: status 200, any
\* other status, or an exception (timeout, refused connection, DNS failure).
HttpOutcomes == {"200", "non200", "exception"}

\* Mutant of AfterExchange: an exception of the exchange is not caught and
\* ends the task.
AfterExchange_Propagates(o) == IF o = "exception" THEN "failed" ELSE "sleep"

\* Where a loop is once its HTTP exchange has ended with outcome o.  The
\* exchange is inside try ... except Exception, inside `while True`: a
\* status is handled by the if/else, an exception (asyncio.TimeoutError,
\* aiohttp.ClientError, OSError) by the except clause, and in every case
\* the loop goes back to its sleep.
AfterExchange(o) == "sleep"

\* The bodies a client may POST to /tx/submit.
RequestKinds == {"invalid_json", "missing_field", "not_object", "bad_sender", "valid"}

\* The "id" a caller may put in the record it submits: none, or the id of
\* an earlier record.
CallerIds == {NoId, 1}

\* --------------------------------------------------------- authentication

\* "Bearer "
BearerPrefix == <<"B", "e", "a", "r", "e", "r", " ">>

\* request.headers.get("Authorization", ""): no header reads as "".
NoHeader == <<>>

\* The last step served no request.
NoHttp == [route |-> "none", header |-> NoHeader]

\* keys_str.split(","): the pieces between the commas, in order.
RECURSIVE SplitFrom(_, _, _, _)
SplitFrom(text, i, piece, pieces) ==
    IF i > Len(text) THEN Append(pieces, piece)
    ELSE IF text[i] = "," THEN SplitFrom(text, i + 1, <<>>, Append(pieces, piece))
    ELSE SplitFrom(text, i + 1, Append(piece, text[i]), pieces)

Split(text) == SplitFrom(text, 1, <<>>, <<>>)

\* load_api_keys: set() for an empty API_KEYS, and otherwise the set of the
\* stripped pieces that are not empty.  The result is a set: the order of
\* the pieces is not kept.
load_api_keys(keys_str) ==
    IF keys_str = <<>> THEN {}
    ELSE {Strip(Split(keys_str)[i]) : i \in 1..Len(Split(keys_str))} \ {<<>>}

\* The values of API_KEYS a process may be started with: unset, one key,
\* two keys, and commas and blanks without a key.
KeyStrings ==
    {<<>>, <<"a">>, <<"a", ",", " ", "b">>, <<" ", ",">>}

\* A process's environment: API_KEYS, and the key that list(set)[0] yields
\* in it.  A set of str is iterated in the order of the strings' hashes,
\* which are salted anew for each process (PYTHONHASHSEED), so the head may
\* be any key of the set; it is the same for every call of one process.
KeyEnvs ==
    UNION {{[keys_str |-> k, head |-> h] :
               h \in IF load_api_keys(k) = {} THEN {<<>>} ELSE load_api_keys(k)} :
           k \in KeyStrings}

\* headers = {}; if api_keys: headers["Authorization"] = f"Bearer {api_keys[0]}"
\* -- the header an outbound call carries (NoHeader: none).
Authorization(keys_str, head) ==
    IF load_api_keys(keys_str) = {} THEN NoHeader ELSE BearerPrefix \o head

\* PUBLIC_ROUTES = {"/health", "/identity"}
PUBLIC_ROUTES == {"/health", "/identity"}

\* The paths requests are sent to: the six that run registers.
Routes == {"/identity", "/health", "/metrics/json", "/tx/submit", "/mempool",
           "/shutdown"}

\* The Authorization headers a client may send: none, another scheme, a
\* key, a key with blanks around it, another key, and no key at all.
ClientHeaders ==
    {NoHeader,
     <<"B", "a", "s", "i", "c", " ", "a">>,
     BearerPrefix \o <<"a">>,
     BearerPrefix \o <<" ", "a", " ">>,
     BearerPrefix \o <<"b">>,
     BearerPrefix}

\* Mutant of auth_middleware: the key is looked up only when the header is
\* a Bearer header; any other header is let through.
auth_middleware_BearerOnly(keys, route, header) ==
    IF route \in PUBLIC_ROUTES THEN "handler"
    ELSE IF keys = {} THEN "handler"
    ELSE IF ~IsPrefix(BearerPrefix, header) THEN "handler"
    ELSE IF Strip(SubSeq(header, Len(BearerPrefix) + 1, Len(header))) \notin keys
         THEN "403"
    ELSE "handler"

\* auth_middleware: what becomes of a request to route carrying header,
\* keys being app["api_keys"]: it is handed to the handler, or answered 401
\* or 403.
auth_middleware(keys, route, header) ==
    IF route \in PUBLIC_ROUTES THEN "handler"
    ELSE IF keys = {} THEN "handler"
    ELSE IF ~IsPrefix(BearerPrefix, header) THEN "401"
    ELSE IF Strip(SubSeq(header, Len(BearerPrefix) + 1, Len(header))) \notin keys
         THEN "403"
    ELSE "handler"

\* A request to route gets past the middleware to its handler.
Served(route) ==
    \E h \in client_headers :
        /\ auth_middleware(app_keys, route, h) = "handler"
        /\ http' = [route |-> route, header |-> h]

\* The step is one of a loop, not of a handler.
Unserved == http' = NoHttp

\* The process runs without API_KEYS and its clients send no header.
OpenAccess ==
    /\ API_KEYS = <<>>
    /\ keys_head = <<>>
    /\ app_keys = {}
    /\ client_headers = {NoHeader}
    /\ http = NoHttp

\* ------------------------------------------- the address resolver's state

\* A text of n digits.
Digits(n) == [i \in 1..n |-> "1"]

\* The addresses the candidates give.
ConfiguredAddr == <<"c", "f", "g">>

LanAddr == <<"l", "a", "n">>

HostAddr == <<"h", "o", "s", "t">>

\* return "127.0.0.1"
Loopback == <<"1", "2", "7", ".", "0", ".", "0", ".", "1">>

\* The bodies an IP service may answer with: nothing, whitespace, an
\* address (bare, or with a newline around it), and text of 39 and of 40
\* characters.
ServiceTexts ==
    {<<>>, <<" ", " ">>, Digits(7), <<" ">> \o Digits(7) \o <<" ">>,
     Digits(MaxIpLen - 1), <<" ">> \o Digits(MaxIpLen - 1) \o <<" ">>,
     Digits(MaxIpLen)}

\* How a GET to an IP service may end: a 200 with a body, another status,
\* or an exception (timeout, connection error, undecodable body).
ServiceAnswers ==
    {[status |-> "200", text |-> t] : t \in ServiceTexts}
    \cup {[status |-> "non200", text |-> <<>>],
          [status |-> "exception", text |-> <<>>]}

\* What a resolution may meet.
NetEnvs ==
    [public_addr : {<<>>, ConfiguredAddr},
     svc1 : ServiceAnswers,
     svc2 : ServiceAnswers,
     socket_ok : BOOLEAN,
     hostname_ok : BOOLEAN]

\* The resolution is over, as it is when the loops run: the operator had
\* set PUBLIC_ADDR.
ResolverDone ==
    /\ net_env = [public_addr |-> ConfiguredAddr,
                  svc1 |-> [status |-> "exception", text |-> <<>>],
                  svc2 |-> [status |-> "exception", text |-> <<>>],
                  socket_ok |-> FALSE, hostname_ok |-> FALSE]
    /\ pc_resolve = "done"
    /\ public_ip = ConfiguredAddr
    /\ probes = <<>>
    /\ resolved_by = "PUBLIC_ADDR"

\* --------------------------------------------------- the Light node's state

\* A JSON record is given with the set of the keys it lacks (`absent`); a
\* key it lacks holds a filler that nothing reads.
Lacks(rec, key) == key \in rec.absent

\* No discovery exchange has ended yet.
NoDiscovery == [outcome |-> "none", kind |-> "none", ads |-> <<>>]

\* The body of an answer that carries no proof.
NoProof == [block_height |-> 0, root_hash |-> <<>>, proof_data |-> <<>>,
            absent |-> {}]

\* The last step ended no sync exchange.
NoSync == [outcome |-> "none", kind |-> "none", proof |-> NoProof]

\* LightNode.__init__, with AGGREGATOR_ADDR set to addr ("" when unset).
LightNodeInit(addr) ==
    /\ aggregator_addr = addr
    /\ synced_block_height = 0
    /\ synced_root_hash = <<>>
    /\ last_sync_time = 0
    /\ anchors_verified = 0
    /\ light_now = 1
    /\ pc_watch = "start"
    /\ light_event = "start"
    /\ discovered = NoDiscovery
    /\ prior_addr = addr
    /\ sync_seen = NoSync

\* ------------------------------------------------------------------- Init

\* Mutant of Init: the node starts with heavy_online set.
Init_StartsOnline ==
    /\ \E n \in InitLens :
         /\ mempool = [i \in 1..n |-> i]
         /\ tx_count = n
         /\ uuid_next = n + 1
         /\ accepted = 1..n
    /\ batches_submitted = 0
    /\ heavy_online = TRUE
    /\ shadow_mode = FALSE
    /\ last_heavy_heartbeat = 0
    /\ now = 1
    /\ pc_monitor = "sleep"
    /\ pc_flush = "sleep"
    /\ pc_adv = "sleep"
    /\ batch = <<>>
    /\ anchor_req = NoReq
    /\ adv_req = NoReq
    /\ event = "start"
    /\ budget = MaxAccepts
    /\ request = "none"
    /\ response = NoResponse
    /\ logged = "none"
    /\ snapshot = NoSnapshot
    /\ running = TRUE
    /\ lost = NothingLost
    /\ exit_timer = "none"
    /\ anchored = <<>>
    /\ ok_responses = 0
    /\ pre_drain = <<>>
    /\ flight_appends = <<>>
    /\ last_failed = <<>>
    /\ failed_root = NoRoot
    /\ OpenAccess
    /\ ResolverDone
    /\ LightNodeInit("")

Init ==
    /\ \E n \in InitLens :
         /\ mempool = [i \in 1..n |-> i]
         /\ tx_count = n
         /\ uuid_next = n + 1
         /\ accepted = 1..n
    /\ batches_submitted = 0
    /\ heavy_online = FALSE
    /\ shadow_mode = FALSE
    /\ last_heavy_heartbeat = 0
    /\ now = 1
    /\ pc_monitor = "sleep"
    /\ pc_flush = "sleep"
    /\ pc_adv = "sleep"
    /\ batch = <<>>
    /\ anchor_req = NoReq
    /\ adv_req = NoReq
    /\ event = "start"
    /\ budget = MaxAccepts
    /\ request = "none"
    /\ response = NoResponse
    /\ logged = "none"
    /\ snapshot = NoSnapshot
    /\ running = TRUE
    /\ lost = NothingLost
    /\ exit_timer = "none"
    /\ anchored = <<>>
    /\ ok_responses = 0
    /\ pre_drain = <<>>
    /\ flight_appends = <<>>
    /\ last_failed = <<>>
    /\ failed_root = NoRoot
    /\ OpenAccess
    /\ ResolverDone
    /\ LightNodeInit("")

\* The Medium node as __init__ leaves it, for the specifications of the
\* other processes, which never touch it.
MediumIdle ==
    /\ mempool = <<>>
    /\ tx_count = 0
    /\ uuid_next = 1
    /\ accepted = {}
    /\ batches_submitted = 0
    /\ heavy_online = FALSE
    /\ shadow_mode = FALSE
    /\ last_heavy_heartbeat = 0
    /\ now = 1
    /\ pc_monitor = "sleep"
    /\ pc_flush = "sleep"
    /\ pc_adv = "sleep"
    /\ batch = <<>>
    /\ anchor_req = NoReq
    /\ adv_req = NoReq
    /\ event = "start"
    /\ budget = MaxAccepts
    /\ request = "none"
    /\ response = NoResponse
    /\ logged = "none"
    /\ snapshot = NoSnapshot
    /\ running = TRUE
    /\ lost = NothingLost
    /\ exit_timer = "none"
    /\ anchored = <<>>
    /\ ok_responses = 0
    /\ pre_drain = <<>>
    /\ flight_appends = <<>>
    /\ last_failed = <<>>
    /\ failed_root = NoRoot

\* ------------------------------------------------------------- submit_tx

\* Mutant of StoreTx: the record is put at the head.
StoreTx_Prepend(mp, id) == <<id>> \o mp

\* tx["id"] = str(uuid.uuid4()); self.mempool.append(tx)
StoreTx(mp, id) == Append(mp, id)

\* Mutant of Validated: the required fields are not checked.
Validated_NoCheck(kind) == kind \in {"missing_field", "bad_sender", "valid"}

\* for field in required: if field not in tx: return 400 -- the bodies that
\* are dicts holding sender, recipient and amount get past the check.
Validated(kind) == kind \in {"bad_sender", "valid"}

\* Mutant of AssignedId: an id the caller supplied is kept.
AssignedId_KeepCallers(caller_id, fresh) ==
    IF caller_id # NoId THEN caller_id ELSE fresh

\* tx["id"] = str(uuid.uuid4()): the node's id replaces whatever "id" the
\* submitted record carried.
AssignedId(caller_id, fresh) == fresh

\* POST /tx/submit.  kind is the shape of the request body:
\*   invalid_json   request.json() raises: 400
\*   missing_field  a dict without sender, recipient or amount: 400
\*   not_object     a JSON value that is no dict (null, a number, a list or
\*                  string holding the three names): `field in tx` or
\*                  tx["id"] = ... raises TypeError, the server answers 500
\*   bad_sender     a dict with the three fields whose sender or recipient
\*                  cannot be sliced (a number, null): the record is stored
\*                  and counted, then log.info raises and the server
\*                  answers 500
\*   valid          stored, counted, answered "accepted" with the id
\* caller_id is the "id" field of a dict body, if it has one.
submit_tx(kind, caller_id) ==
    /\ Alive
    /\ Served("/tx/submit")
    /\ kind \in {"invalid_json", "not_object"} => caller_id = NoId
    /\ \/ /\ kind \in {"invalid_json", "missing_field"}
          /\ event' = "tx_400"
          /\ Out(kind, [status |-> 400, body |-> "error", tx_id |-> NoId], "none")
          /\ UNCHANGED <<mempool, tx_count, uuid_next, budget, accepted,
                         flight_appends>>
       \/ /\ kind = "not_object"
          /\ event' = "tx_500"
          /\ Out(kind, [status |-> 500, body |-> "error", tx_id |-> NoId], "none")
          /\ UNCHANGED <<mempool, tx_count, uuid_next, budget, accepted,
                         flight_appends>>
       \/ /\ Validated(kind)
          /\ budget > 0
          /\ budget' = budget - 1
          /\ LET id == AssignedId(caller_id, uuid_next)
             IN /\ mempool' = StoreTx(mempool, id)
                /\ flight_appends' = IF pc_flush = "posting"
                                     THEN flight_appends \o <<id>>
                                     ELSE flight_appends
                /\ IF kind = "valid"
                   THEN /\ accepted' = accepted \cup {id}
                        /\ event' = "tx_accepted"
                        /\ Out(kind, [status |-> 200, body |-> "accepted",
                                      tx_id |-> id], "tx_received")
                   ELSE /\ accepted' = accepted
                        /\ event' = "tx_stored_500"
                        /\ Out(kind, [status |-> 500, body |-> "error",
                                      tx_id |-> NoId], "none")
          /\ tx_count' = tx_count + 1
          /\ uuid_next' = uuid_next + 1
    /\ UNCHANGED <<batches_submitted, heavy_online, shadow_mode,
                   last_heavy_heartbeat, now, pc_monitor, pc_flush, pc_adv,
                   batch, anchor_req, adv_req, anchored, ok_responses,
                   pre_drain, last_failed, failed_root>>

\* ------------------------------------------------------------ get_mempool

\* Mutant of PeekTail: the slice is taken from the head.
PeekTail_Head(mp) == SubSeq(mp, 1, Min(SnapshotSize, Len(mp)))

\* self.mempool[-50:]: a slice from index max(0, len - 50) to the end.
PeekTail(mp) == SubSeq(mp, Max(0, Len(mp) - SnapshotSize) + 1, Len(mp))

\* GET /mempool: {"count": len(self.mempool), "transactions": the slice}.
get_mempool ==
    /\ Alive
    /\ Served("/mempool")
    /\ request' = "none"
    /\ response' = NoResponse
    /\ logged' = "none"
    /\ snapshot' = [count |-> Len(mempool), transactions |-> PeekTail(mempool),
                    given |-> TRUE]
    /\ event' = "mempool_read"
    /\ UNCHANGED <<node_vars, now, uuid_next, pc_monitor, pc_flush, pc_adv,
                   batch, anchor_req, adv_req, budget, history_vars>>

\* --------------------------------------------------- monitor_heavy_nodes

\* The liveness fields as one record, for the two branches of the probe.
Liveness == [heavy_online |-> heavy_online, shadow_mode |-> shadow_mode,
             last_heavy_heartbeat |-> last_heavy_heartbeat]

\* resp.status == 200: heavy_online = True, the heartbeat is stamped, and
\* shadow_mode is cleared if it was set.
ProbeOk(l, t) ==
    [heavy_online |-> TRUE,
     shadow_mode |-> IF l.shadow_mode THEN FALSE ELSE l.shadow_mode,
     last_heavy_heartbeat |-> t]

\* Mutant of HandleHeavyOffline: the flags are written only on the
\* Online-to-Shadow transition, like the warning.
HandleHeavyOffline_IfOnline(l) ==
    IF l.heavy_online
    THEN [l EXCEPT !.heavy_online = FALSE, !.shadow_mode = TRUE]
    ELSE l

\* _handle_heavy_offline: the warning is logged if heavy_online was set;
\* the two flags are written whatever they were.
HandleHeavyOffline(l) ==
    [l EXCEPT !.heavy_online = FALSE, !.shadow_mode = TRUE]

\* Mutant of LogsShadowEntry: the warning is logged at every failed probe.
LogsShadowEntry_Always(l) == TRUE

\* if self.heavy_online: log.warning("... entering shadow mode")
LogsShadowEntry(l) == l.heavy_online

\* if self.shadow_mode: log.info("Heavy node back online, ...")
LogsRecovery(l) == l.shadow_mode

\* await asyncio.sleep(30) returns and the GET /health is sent.
monitor_probe ==
    /\ Alive
    /\ Unserved
    /\ Out("none", NoResponse, "none")
    /\ pc_monitor = "sleep"
    /\ now <= MaxProbes
    /\ now' = now + 1
    /\ pc_monitor' = "probing"
    /\ event' = "probe_sent"
    /\ UNCHANGED <<node_vars, uuid_next, pc_flush, pc_adv, batch, anchor_req,
                   adv_req, budget, history_vars>>

\* The GET /health ends: with a status, or with an exception.
monitor_response(o) ==
    /\ Alive
    /\ Unserved
    /\ Out("none", NoResponse,
           IF o = "200"
           THEN (IF LogsRecovery(Liveness) THEN "recovered" ELSE "none")
           ELSE (IF LogsShadowEntry(Liveness) THEN "entering_shadow" ELSE "none"))
    /\ pc_monitor = "probing"
    /\ LET l == IF o = "200" THEN ProbeOk(Liveness, now)
                             ELSE HandleHeavyOffline(Liveness)
       IN /\ heavy_online' = l.heavy_online
          /\ shadow_mode' = l.shadow_mode
          /\ last_heavy_heartbeat' = l.last_heavy_heartbeat
    /\ event' = IF o = "200" THEN "probe_ok" ELSE "probe_fail"
    /\ pc_monitor' = AfterExchange(o)
    /\ UNCHANGED <<mempool, tx_count, batches_submitted, now, uuid_next,
                   pc_flush, pc_adv, batch, anchor_req, adv_req, budget,
                   history_vars>>

\* ------------------------------------------------------------ batch_flush

\* Mutant of SkipFlush: the liveness flag is not consulted.
SkipFlush_OnlyEmpty(mp, online) == mp = <<>>

\* Mutant of SkipFlush: a chunk is submitted only when it is full.
SkipFlush_UnlessFull(mp, online) == Len(mp) < ChunkSize \/ ~online

\* if not self.mempool or not self.heavy_online: continue
SkipFlush(mp, online) == mp = <<>> \/ ~online

\* Mutant of Drain: the whole mempool is taken as one chunk.
Drain_All(mp) == mp

\* Mutant of Drain: the slice stops one record short.
Drain_OffByOne(mp) == SubSeq(mp, 1, Min(ChunkSize - 1, Len(mp)))

\* batch = self.mempool[:100]
Drain(mp) == SubSeq(mp, 1, Min(ChunkSize, Len(mp)))

\* Mutant of Remainder: the drained records stay in the mempool.
Remainder_NoRemove(mp) == mp

\* self.mempool = self.mempool[100:]
Remainder(mp) == SubSeq(mp, Min(ChunkSize, Len(mp)) + 1, Len(mp))

\* combined = "".join(tx.get("id", str(i)) ...): every stored record has an
\* id, so the concatenation is that of the chunk's ids in order.
Combined(chunk) == [i \in 1..Len(chunk) |-> chunk[i]]

\* Mutant of BatchRoot: a counter of the node is hashed with the ids.
BatchRoot_Salted(chunk) == [sha256 |-> Combined(chunk) \o <<tx_count>>]

\* batch_root = list(hashlib.sha256(combined.encode()).digest()): the digest
\* as a value determined by, and (no collisions) determining, the hashed text.
BatchRoot(chunk) == [sha256 |-> Combined(chunk)]

\* Mutants of RequeueFront: the failed chunk is dropped, put back twice,
\* appended behind the newer records, or put back in reverse order.
RequeueFront_Drop(chunk, mp) == mp

RequeueFront_Twice(chunk, mp) == chunk \o chunk \o mp

RequeueFront_Back(chunk, mp) == mp \o chunk

\* ... or written over the mempool, records stored meanwhile included.
RequeueFront_Replace(chunk, mp) == chunk

RequeueFront_Reversed(chunk, mp) ==
    [i \in 1..Len(chunk) |-> chunk[Len(chunk) + 1 - i]] \o mp

\* self.mempool = batch + self.mempool
RequeueFront(chunk, mp) == chunk \o mp

\* Mutant of CountBatch: the increment is forgotten.
CountBatch_Forget(n) == n

\* self.batches_submitted += 1
CountBatch(n) == n + 1

\* await asyncio.sleep(10) returns: the cycle is skipped, or a chunk is
\* drained, its digest computed and the POST /subchain/batch_anchor sent.
flush_cycle ==
    /\ Alive
    /\ Unserved
    /\ Out("none", NoResponse, "none")
    /\ pc_flush = "sleep"
    /\ \/ /\ SkipFlush(mempool, heavy_online)
          /\ event' = "flush_skip"
          /\ UNCHANGED <<mempool, batch, anchor_req, pc_flush, pre_drain,
                         flight_appends>>
       \/ /\ ~SkipFlush(mempool, heavy_online)
          /\ batch' = Drain(mempool)
          /\ mempool' = Remainder(mempool)
          /\ anchor_req' = [kind |-> "batch_anchor",
                            batch_root |-> BatchRoot(batch'),
                            leaf_count |-> Len(batch'),
                            auth |-> Authorization(API_KEYS, keys_head)]
          /\ pc_flush' = "posting"
          /\ pre_drain' = mempool
          /\ flight_appends' = <<>>
          /\ event' = "flush_post"
    /\ UNCHANGED <<tx_count, batches_submitted, heavy_online, shadow_mode,
                   last_heavy_heartbeat, now, uuid_next, pc_monitor, pc_adv,
                   adv_req, budget, accepted, anchored, ok_responses,
                   last_failed, failed_root>>

\* The POST /subchain/batch_anchor ends: status 200, another status (the
\* else branch), or an exception (the except branch).
flush_response(o) ==
    /\ Alive
    /\ Unserved
    /\ Out("none", NoResponse, IF o = "200" THEN "anchored" ELSE "requeuing")
    /\ pc_flush = "posting"
    /\ \/ /\ o = "200"
          /\ batches_submitted' = CountBatch(batches_submitted)
          /\ ok_responses' = ok_responses + 1
          /\ anchored' = anchored \o batch
          /\ last_failed' = <<>>
          /\ failed_root' = NoRoot
          /\ event' = "anchor_ok"
          /\ UNCHANGED mempool
       \/ /\ o = "non200"
          /\ mempool' = RequeueFront(batch, mempool)
          /\ last_failed' = batch
          /\ failed_root' = anchor_req.batch_root
          /\ event' = "anchor_fail"
          /\ UNCHANGED <<batches_submitted, ok_responses, anchored>>
       \/ /\ o = "exception"
          /\ mempool' = RequeueFront(batch, mempool)
          /\ last_failed' = batch
          /\ failed_root' = anchor_req.batch_root
          /\ event' = "anchor_fail"
          /\ UNCHANGED <<batches_submitted, ok_responses, anchored>>
    /\ batch' = <<>>
    /\ anchor_req' = NoReq
    /\ pc_flush' = AfterExchange(o)
    /\ UNCHANGED <<tx_count, heavy_online, shadow_mode, last_heavy_heartbeat,
                   now, uuid_next, pc_monitor, pc_adv, adv_req, budget,
                   accepted, pre_drain, flight_appends>>

\* ----------------------------------------------------- advertise_to_heavy

\* Mutant of SkipAdvertise: the cycle is never skipped.
SkipAdvertise_Never(online) == FALSE

\* if not self.heavy_online: continue
SkipAdvertise(online) == ~online

\* Mutant of CapacityPercent: the difference is not clamped at 0.
CapacityPercent_NoClamp(mp) == FullCapacity - Len(mp)

\* "capacity_percent": max(0, 100 - len(self.mempool))
CapacityPercent(mp) == Max(0, FullCapacity - Len(mp))

\* await asyncio.sleep(60) returns: the cycle is skipped, or the record is
\* built and the POST /subchain/advertise sent.  The address in the record
\* was resolved once, before the loop, and is no node state.
advertise_cycle ==
    /\ Alive
    /\ Unserved
    /\ Out("none", NoResponse, "none")
    /\ pc_adv = "sleep"
    /\ \/ /\ SkipAdvertise(heavy_online)
          /\ event' = "adv_skip"
          /\ UNCHANGED <<pc_adv, adv_req>>
       \/ /\ ~SkipAdvertise(heavy_online)
          /\ adv_req' = [kind |-> "advertise",
                         capacity_percent |-> CapacityPercent(mempool),
                         auth |-> Authorization(API_KEYS, keys_head)]
          /\ pc_adv' = "posting"
          /\ event' = "adv_post"
    /\ UNCHANGED <<node_vars, now, uuid_next, pc_monitor, pc_flush, batch,
                   anchor_req, budget, history_vars>>

\* Mutant of advertise_response: a failed advertisement marks the Heavy
\* node offline.
advertise_response_MarksOffline(o) ==
    /\ Alive
    /\ Unserved
    /\ Out("none", NoResponse,
           IF o = "200" THEN "advertised" ELSE "advertise_failed")
    /\ pc_adv = "posting"
    /\ adv_req' = NoReq
    /\ pc_adv' = "sleep"
    /\ event' = IF o = "200" THEN "adv_ok" ELSE "adv_failed"
    /\ heavy_online' = (IF o = "200" THEN heavy_online ELSE FALSE)
    /\ shadow_mode' = (IF o = "200" THEN shadow_mode ELSE TRUE)
    /\ UNCHANGED <<mempool, tx_count, batches_submitted, last_heavy_heartbeat,
                   now, uuid_next, pc_monitor, pc_flush, batch, anchor_req,
                   budget, history_vars>>

\* The POST /subchain/advertise ends: the outcome is logged, nothing else.
advertise_response(o) ==
    /\ Alive
    /\ Unserved
    /\ Out("none", NoResponse,
           IF o = "200" THEN "advertised" ELSE "advertise_failed")
    /\ pc_adv = "posting"
    /\ adv_req' = NoReq
    /\ pc_adv' = AfterExchange(o)
    /\ event' = IF o = "200" THEN "adv_ok" ELSE "adv_failed"
    /\ UNCHANGED <<node_vars, now, uuid_next, pc_monitor, pc_flush, batch,
                   anchor_req, budget, history_vars>>

\* ------------------------------------------------------------------- Spec

Next ==
    \/ \E k \in RequestKinds, c \in CallerIds : submit_tx(k, c)
    \/ get_mempool
    \/ monitor_probe
    \/ \E o \in HttpOutcomes : monitor_response(o)
    \/ flush_cycle
    \/ \E o \in HttpOutcomes : flush_response(o)
    \/ advertise_cycle
    \/ \E o \in HttpOutcomes : advertise_response(o)

Spec == Init /\ [][Next]_vars

\* The steps of each of the three tasks run gathers: where the task is
\* decides which of its two steps is next.
MonitorTask ==
    \/ pc_monitor = "sleep" /\ monitor_probe
    \/ pc_monitor = "probing" /\ \E o \in HttpOutcomes : monitor_response(o)

FlushTask ==
    \/ pc_flush = "sleep" /\ flush_cycle
    \/ pc_flush = "posting" /\ \E o \in HttpOutcomes : flush_response(o)

AdvertiseTask ==
    \/ pc_adv = "sleep" /\ advertise_cycle
    \/ pc_adv = "posting" /\ \E o \in HttpOutcomes : advertise_response(o)

\* The event loop runs every task that can run: a sleep that is over
\* returns, and an HTTP exchange ends, with an answer or with the exception
\* its ClientTimeout raises.
Fairness ==
    /\ WF_vars(MonitorTask)
    /\ WF_vars(FlushTask)
    /\ WF_vars(AdvertiseTask)

\* The node starts with more than one chunk buffered.
LiveInit == Init /\ Len(mempool) > ChunkSize

\* The three tasks, and the handler that stores records.
LiveNext ==
    \/ \E k \in RequestKinds, c \in CallerIds : submit_tx(k, c)
    \/ MonitorTask
    \/ FlushTask
    \/ AdvertiseTask

\* The buffer and the loops, the tasks scheduled fairly.
LiveSpec == LiveInit /\ [][LiveNext]_vars /\ Fairness

\* ----------------------------------------------------------- process end

\* The process ends at once, as by the os._exit(0) that shutdown schedules,
\* or by a crash.  Nothing is persisted: the mempool and the chunk being
\* submitted exist only in the process's memory and go with it.  The
\* anchored chunks are with the Heavy node; the history keeps what was held.
process_exit ==
    /\ running
    /\ Unserved
    /\ running' = FALSE
    /\ lost' = [chunk |-> batch, buffered |-> mempool]
    /\ mempool' = <<>>
    /\ batch' = <<>>
    /\ anchor_req' = NoReq
    /\ adv_req' = NoReq
    /\ tx_count' = 0
    /\ batches_submitted' = 0
    /\ heavy_online' = FALSE
    /\ shadow_mode' = FALSE
    /\ last_heavy_heartbeat' = 0
    /\ pc_monitor' = "ended"
    /\ pc_flush' = "ended"
    /\ pc_adv' = "ended"
    /\ event' = "exit"
    /\ Out("none", NoResponse, "none")
    /\ pre_drain' = <<>>
    /\ flight_appends' = <<>>
    /\ last_failed' = <<>>
    /\ failed_root' = NoRoot
    /\ UNCHANGED <<now, uuid_next, budget, accepted, anchored, ok_responses,
                   exit_timer, access_vars, resolver_vars, elsewhere_vars>>

NextOrExit == Next \/ process_exit

\* The node as above, together with the end of its process.
CrashSpec == Init /\ [][NextOrExit]_vars

\* --------------------------------------------------------------- shutdown

\* POST /shutdown: the request is logged, os._exit(0) is scheduled one second
\* ahead with call_later, and {"status": "shutting_down"} is answered.  The
\* handler tells the loops nothing: they run on until the timer fires.
shutdown ==
    /\ running
    /\ Served("/shutdown")
    /\ exit_timer' = "armed"
    /\ event' = "shutdown_requested"
    /\ Out("none", [status |-> 200, body |-> "shutting_down", tx_id |-> NoId],
           "shutdown_requested")
    /\ UNCHANGED <<node_vars, now, uuid_next, pc_monitor, pc_flush, pc_adv,
                   batch, anchor_req, adv_req, budget, history_vars, running,
                   lost, access_vars, resolver_vars, elsewhere_vars>>

\* The second is over: the timer's callback runs os._exit(0), whatever the
\* loops are doing at that moment.
shutdown_exit ==
    /\ exit_timer = "armed"
    /\ process_exit

NextOrShutdown == Next \/ shutdown \/ shutdown_exit

\* The node as above, together with its shutdown endpoint.
ShutdownSpec == Init /\ [][NextOrShutdown]_vars

\* ========================================================= authentication
\* auth_middleware in front of the handlers, and the key the loops' calls
\* carry, for the values API_KEYS may have.

\* A handler that reads the node and answers: it changes nothing.
ReadOnly(route, ev) ==
    /\ Alive
    /\ Served(route)
    /\ event' = ev
    /\ Out("none", [status |-> 200, body |-> "info", tx_id |-> NoId], "none")
    /\ UNCHANGED <<node_vars, now, uuid_next, pc_monitor, pc_flush, pc_adv,
                   batch, anchor_req, adv_req, budget, history_vars>>

\* GET /health
health_check == ReadOnly("/health", "health_read")

\* GET /identity
get_identity == ReadOnly("/identity", "identity_read")

\* GET /metrics/json
get_metrics == ReadOnly("/metrics/json", "metrics_read")

\* The middleware answers the request itself, 401 or 403: no handler runs.
auth_reject(route, header) ==
    /\ Alive
    /\ header \in client_headers
    /\ LET d == auth_middleware(app_keys, route, header)
       IN /\ d \in {"401", "403"}
          /\ event' = "rejected"
          /\ Out("none", [status |-> IF d = "401" THEN 401 ELSE 403,
                          body |-> "error", tx_id |-> NoId], "none")
    /\ http' = [route |-> route, header |-> header]
    /\ UNCHANGED <<node_vars, now, uuid_next, pc_monitor, pc_flush, pc_adv,
                   batch, anchor_req, adv_req, budget, history_vars>>

\* The requests that reach the node: those the middleware answers and
\* those it hands to a handler.
AuthNext ==
    \/ \E r \in Routes, h \in ClientHeaders : auth_reject(r, h)
    \/ \E k \in RequestKinds, c \in CallerIds : submit_tx(k, c)
    \/ get_mempool
    \/ health_check
    \/ get_identity
    \/ get_metrics
    \/ shutdown
    \/ shutdown_exit

\* run begins: app["api_keys"] = load_api_keys(), in the environment e.
RunBegins(e) ==
    /\ API_KEYS = e.keys_str
    /\ keys_head = e.head
    /\ app_keys = load_api_keys(e.keys_str)
    /\ http = NoHttp

\* The node as __init__ leaves it, in any of the environments, its clients
\* sending any of the headers.
AuthInit ==
    /\ MediumIdle
    /\ ResolverDone
    /\ LightNodeInit("")
    /\ \E e \in KeyEnvs : RunBegins(e)
    /\ client_headers = ClientHeaders

\* The handlers behind the middleware.
AuthSpec == AuthInit /\ [][AuthNext]_vars

\* The node in any of the environments, its clients holding the key a.
KeysInit ==
    /\ MediumIdle
    /\ ResolverDone
    /\ LightNodeInit("")
    /\ \E e \in KeyEnvs : RunBegins(e)
    /\ client_headers = {BearerPrefix \o <<"a">>}

\* The loops and handlers of Spec, with API_KEYS set or not.
KeysSpec == KeysInit /\ [][Next]_vars

\* ==================================================== the address resolver
\* MediumNode._detect_public_addr, awaited once by advertise_to_heavy before
\* its loop.  It is suspended only in the GETs to the two IP services; the
\* socket and hostname fallbacks are synchronous.

\* The address a service's answer gives, <<>> if it gives none:
\* if resp.status == 200: ip = (await resp.text()).strip();
\* if ip and len(ip) < 40: return ip -- and except Exception: continue.
ServiceGives(ans) ==
    IF ans.status = "200" /\ Strip(ans.text) # <<>>
         /\ Len(Strip(ans.text)) < MaxIpLen
    THEN Strip(ans.text)
    ELSE <<>>

\* Mutant of Fallback: the hostname is tried before the socket.
Fallback_HostnameFirst(env) ==
    IF env.hostname_ok
    THEN [by |-> "hostname", addr |-> HostAddr, probes |-> <<"hostname">>]
    ELSE IF env.socket_ok
    THEN [by |-> "socket", addr |-> LanAddr,
          probes |-> <<"hostname", "socket">>]
    ELSE [by |-> "loopback", addr |-> Loopback,
          probes |-> <<"hostname", "socket">>]

\* Mutant of Fallback: a failing hostname lookup is not caught.
Fallback_HostnameRaises(env) ==
    IF env.socket_ok
    THEN [by |-> "socket", addr |-> LanAddr, probes |-> <<"socket">>]
    ELSE IF env.hostname_ok
    THEN [by |-> "hostname", addr |-> HostAddr,
          probes |-> <<"socket", "hostname">>]
    ELSE [by |-> "raised", addr |-> <<>>, probes |-> <<"socket", "hostname">>]

\* The synchronous tail: the outbound socket's local address; if that
\* raises, the hostname's address; if that raises, "127.0.0.1".
Fallback(env) ==
    IF env.socket_ok
    THEN [by |-> "socket", addr |-> LanAddr, probes |-> <<"socket">>]
    ELSE IF env.hostname_ok
    THEN [by |-> "hostname", addr |-> HostAddr,
          probes |-> <<"socket", "hostname">>]
    ELSE [by |-> "loopback", addr |-> Loopback,
          probes |-> <<"socket", "hostname">>]

\* _detect_public_addr is entered: PUBLIC_ADDR is returned if set, and
\* otherwise the GET to the first service is sent.
detect_start ==
    /\ pc_resolve = "start"
    /\ IF net_env.public_addr # <<>>
       THEN /\ public_ip' = net_env.public_addr
            /\ resolved_by' = "PUBLIC_ADDR"
            /\ pc_resolve' = "done"
            /\ UNCHANGED probes
       ELSE /\ probes' = <<"svc1">>
            /\ pc_resolve' = "svc1"
            /\ UNCHANGED <<public_ip, resolved_by>>
    /\ UNCHANGED <<net_env, served_vars, light_vars>>

\* The GET to a service ends.  Its address is returned if it gives one;
\* otherwise the next service is asked, and after the last one the
\* synchronous fallbacks decide.
detect_response ==
    /\ pc_resolve \in {"svc1", "svc2"}
    /\ LET ans == IF pc_resolve = "svc1" THEN net_env.svc1 ELSE net_env.svc2
           f == Fallback(net_env)
       IN IF ServiceGives(ans) # <<>>
          THEN /\ public_ip' = ServiceGives(ans)
               /\ resolved_by' = pc_resolve
               /\ pc_resolve' = "done"
               /\ UNCHANGED probes
          ELSE IF pc_resolve = "svc1"
          THEN /\ probes' = probes \o <<"svc2">>
               /\ pc_resolve' = "svc2"
               /\ UNCHANGED <<public_ip, resolved_by>>
          ELSE /\ probes' = probes \o f.probes
               /\ public_ip' = f.addr
               /\ resolved_by' = f.by
               /\ pc_resolve' = IF f.by = "raised" THEN "raised" ELSE "done"
    /\ UNCHANGED <<net_env, served_vars, light_vars>>

ResolverNext == detect_start \/ detect_response

ResolverInit ==
    /\ MediumIdle
    /\ OpenAccess
    /\ LightNodeInit("")
    /\ net_env \in NetEnvs
    /\ pc_resolve = "start"
    /\ public_ip = <<>>
    /\ probes = <<>>
    /\ resolved_by = "none"

ResolverSpec == ResolverInit /\ [][ResolverNext]_vars

\* ========================================================= the Light node
\* src/ouro_py/ouro_light/main.py: the watch_anchors task, which syncs the
\* state proof and discovers an aggregator at start and then once per
\* interval.  Each action is the task's code between two awaits that wait.

\* The AGGREGATOR_ADDR the operator may have configured ("" is unset).
ConfiguredAddrs == {"", "B"}

\* The candidates a discovery response may list: Advertisement-shaped
\* records with a reputation in tenths, and records lacking a field.
Candidates ==
    [aggregator_addr : {"A", "B", "C"}, reputation_score : {1, 5, 9},
     aggregator_node_id : {"n"}, absent : {{}}]
    \cup {[aggregator_addr |-> "A", reputation_score |-> 0,
           aggregator_node_id |-> "n", absent |-> {"reputation_score"}],
          [aggregator_addr |-> "", reputation_score |-> 9,
           aggregator_node_id |-> "n", absent |-> {"aggregator_addr"}],
          [aggregator_addr |-> "B", reputation_score |-> 9,
           aggregator_node_id |-> "", absent |-> {"aggregator_node_id"}]}

\* The bodies GET /subchain/discover may be answered with: a JSON list of
\* candidates, null, or a body resp.json() or the selection raises on.
DiscoverBodies ==
    {[kind |-> "list", ads |-> l] :
        l \in UNION {[1..k -> Candidates] : k \in 0..MaxAds}}
    \cup {[kind |-> "null", ads |-> <<>>], [kind |-> "malformed", ads |-> <<>>]}

\* key=lambda a: a.get("reputation_score", 0)
Score(a) == IF Lacks(a, "reputation_score") THEN 0 ELSE a.reputation_score

\* max(ads, key=...) as Python computes it: the candidates are visited in
\* order and the one held is replaced only by a strictly greater one.
RECURSIVE MaxFrom(_, _, _)
MaxFrom(ads, i, best) ==
    IF i > Len(ads) THEN best
    ELSE MaxFrom(ads, i + 1,
                 IF Score(ads[i]) > Score(ads[best]) THEN i ELSE best)

\* Mutant of BestOf: of the candidates with the maximum score the last wins.
BestOf_LastWins(ads) ==
    ads[CHOOSE i \in 1..Len(ads) :
          /\ \A j \in 1..Len(ads) : Score(ads[j]) <= Score(ads[i])
          /\ \A j \in (i + 1)..Len(ads) : Score(ads[j]) < Score(ads[i])]

\* best = max(ads, key=lambda a: a.get("reputation_score", 0))
BestOf(ads) == ads[MaxFrom(ads, 2, 1)]

\* if ads: -- a list with a candidate in it (null and [] are falsy).
HasCandidates(body) == body.kind = "list" /\ body.ads # <<>>

\* Mutant of Selection: a selection already made is kept.
Selection_Sticky(prior, o, body) ==
    IF prior # "" THEN prior
    ELSE IF o = "200" /\ HasCandidates(body)
              /\ ~Lacks(BestOf(body.ads), "aggregator_addr")
         THEN BestOf(body.ads).aggregator_addr
         ELSE prior

\* Mutant of Selection: an answer without candidates clears the selection.
Selection_ClearsOnEmpty(prior, o, body) ==
    IF o = "200" /\ HasCandidates(body)
         /\ ~Lacks(BestOf(body.ads), "aggregator_addr")
    THEN BestOf(body.ads).aggregator_addr
    ELSE IF o = "200" /\ body.kind # "malformed" THEN "" ELSE prior

\* self.aggregator_addr once discover_aggregator has ended: on a 200 with
\* candidates, best["aggregator_addr"] (a best candidate without the field
\* raises KeyError before the assignment); in every other case what it was.
Selection(prior, o, body) ==
    IF o = "200" /\ HasCandidates(body)
         /\ ~Lacks(BestOf(body.ads), "aggregator_addr")
    THEN BestOf(body.ads).aggregator_addr
    ELSE prior

\* How discover_aggregator ended: the selection logged, the selection made
\* and the log line raising (no aggregator_node_id), no candidates, or a
\* failure (a status other than 200, an exception).
DiscoverEnds(o, body) ==
    IF o # "200" \/ body.kind = "malformed" THEN "discovery_failed"
    ELSE IF ~HasCandidates(body) THEN "no_candidates"
    ELSE IF Lacks(BestOf(body.ads), "aggregator_addr") THEN "discovery_failed"
    ELSE IF Lacks(BestOf(body.ads), "aggregator_node_id")
         THEN "selected_log_failed"
    ELSE "selected"

\* The root hashes a proof may claim: text shorter and longer than the
\* preview the node keeps.
ShortRoot == <<"a", "b", "c">>

LongRoot == [i \in 1..20 |-> "f"]

\* A byte as the digest's text shows it.
HexOf(n) == IF n = 1 THEN "1" ELSE IF n = 2 THEN "2" ELSE "x"

\* hashlib.sha256(proof_bytes).hexdigest(): text longer than the preview,
\* determined by, and (no collisions) determining, the bytes hashed.
Sha256Hex(data) ==
    <<"#">> \o [i \in 1..Len(data) |-> HexOf(data[i])]
            \o [i \in 1..(RootPreview + 1) |-> "0"]

\* computed_hash = hashlib.sha256(proof_bytes).hexdigest()[:16]
ComputedHash(data) == SubSeq(Sha256Hex(data), 1, RootPreview)

\* The proofs GET /state_proof may be answered with.  The root claimed is
\* the digest of the payload <<1>>, or some other text; the payload is
\* empty, one byte, or a value that is no byte; and any one key may be
\* absent.
Proofs ==
    [block_height : {7},
     root_hash : {ShortRoot, LongRoot, Sha256Hex(<<1>>)},
     proof_data : {<<>>, <<1>>, <<2>>, <<300>>},
     absent : {{}}]
    \cup [block_height : {7}, root_hash : {ShortRoot}, proof_data : {<<1>>},
          absent : {{"block_height"}, {"root_hash"}, {"proof_data"}}]

SyncBodies ==
    {[kind |-> "proof", proof |-> p] : p \in Proofs}
    \cup {[kind |-> "malformed", proof |-> NoProof]}

\* proof.get("block_height", 0)
BlockHeight(p) == IF Lacks(p, "block_height") THEN 0 ELSE p.block_height

\* str(proof.get("root_hash", ""))[:16]
RootHash16(p) ==
    LET r == IF Lacks(p, "root_hash") THEN <<>> ELSE p.root_hash
    IN SubSeq(r, 1, Min(RootPreview, Len(r)))

\* proof.get("proof_data", [])
ProofData(p) == IF Lacks(p, "proof_data") THEN <<>> ELSE p.proof_data

\* Mutant of Adopts: an empty payload is not looked for.
Adopts_EmptyToo(o, body) ==
    /\ o = "200"
    /\ body.kind = "proof"
    /\ \A i \in 1..Len(ProofData(body.proof)) :
          ProofData(body.proof)[i] \in 0..255

\* The proof is adopted: status 200, a body that parses, proof_data not
\* empty, and bytes(proof_data) not raising (every value in 0..255).
Adopts(o, body) ==
    /\ o = "200"
    /\ body.kind = "proof"
    /\ ProofData(body.proof) # <<>>
    /\ \A i \in 1..Len(ProofData(body.proof)) :
          ProofData(body.proof)[i] \in 0..255

\* Mutant of Rediscovers: every iteration of the loop runs the discovery.
Rediscovers_Always(addr) == TRUE

\* if not self.aggregator_addr: await self.discover_aggregator()
Rediscovers(addr) == addr = ""

\* What a Light step that is no discovery exchange records of itself.
LightOut(ev) ==
    /\ light_event' = ev
    /\ discovered' = NoDiscovery
    /\ prior_addr' = aggregator_addr
    /\ sync_seen' = NoSync

\* watch_anchors starts: the first sync_state_via_zk sends GET /state_proof.
watch_start ==
    /\ pc_watch = "start"
    /\ pc_watch' = "init_sync"
    /\ LightOut("sync_sent")
    /\ UNCHANGED <<aggregator_addr, synced_block_height, synced_root_hash,
                   last_sync_time, anchors_verified, light_now, medium_vars>>

\* await asyncio.sleep(30) returns: sync_state_via_zk sends GET /state_proof.
watch_wake ==
    /\ pc_watch = "sleep"
    /\ light_now <= MaxWatch
    /\ light_now' = light_now + 1
    /\ pc_watch' = "sync"
    /\ LightOut("sync_sent")
    /\ UNCHANGED <<aggregator_addr, synced_block_height, synced_root_hash,
                   last_sync_time, anchors_verified, medium_vars>>

\* The GET /state_proof ends and sync_state_via_zk returns.  At start
\* discover_aggregator follows; in the loop it follows only if no
\* aggregator is held, and otherwise the iteration is counted and ends.
sync_response(o, body) ==
    /\ pc_watch \in {"init_sync", "sync"}
    /\ o # "200" => body.kind = "malformed"
    /\ IF Adopts(o, body)
       THEN /\ synced_block_height' = BlockHeight(body.proof)
            /\ synced_root_hash' = RootHash16(body.proof)
            /\ last_sync_time' = light_now
            /\ light_event' = "synced"
       ELSE /\ UNCHANGED <<synced_block_height, synced_root_hash,
                           last_sync_time>>
            /\ light_event' = "sync_skipped"
    /\ sync_seen' = [outcome |-> o, kind |-> body.kind, proof |-> body.proof]
    /\ discovered' = NoDiscovery
    /\ prior_addr' = aggregator_addr
    /\ IF pc_watch = "init_sync"
       THEN pc_watch' = "init_discover" /\ UNCHANGED anchors_verified
       ELSE IF Rediscovers(aggregator_addr)
            THEN pc_watch' = "discover" /\ UNCHANGED anchors_verified
            ELSE pc_watch' = "sleep" /\ anchors_verified' = anchors_verified + 1
    /\ UNCHANGED <<aggregator_addr, light_now, medium_vars>>

\* The GET /subchain/discover ends and discover_aggregator returns; in the
\* loop the iteration is counted and ends.
discover_response(o, body) ==
    /\ pc_watch \in {"init_discover", "discover"}
    /\ o # "200" => body.kind = "malformed"
    /\ aggregator_addr' = Selection(aggregator_addr, o, body)
    /\ light_event' = DiscoverEnds(o, body)
    /\ discovered' = [outcome |-> o, kind |-> body.kind, ads |-> body.ads]
    /\ prior_addr' = aggregator_addr
    /\ sync_seen' = NoSync
    /\ anchors_verified' = IF pc_watch = "discover" THEN anchors_verified + 1
                           ELSE anchors_verified
    /\ pc_watch' = "sleep"
    /\ UNCHANGED <<synced_block_height, synced_root_hash, last_sync_time,
                   light_now, medium_vars>>

\* The task's position is looked at before an answer is drawn for it.
LightNext ==
    \/ watch_start
    \/ watch_wake
    \/ /\ pc_watch \in {"init_sync", "sync"}
       /\ \E o \in HttpOutcomes, body \in SyncBodies : sync_response(o, body)
    \/ /\ pc_watch \in {"init_discover", "discover"}
       /\ \E o \in HttpOutcomes, body \in DiscoverBodies :
             discover_response(o, body)

LightInit ==
    /\ MediumIdle
    /\ OpenAccess
    /\ ResolverDone
    /\ \E addr \in ConfiguredAddrs : LightNodeInit(addr)

LightSpec == LightInit /\ [][LightNext]_vars

\* ================================================================ claims

\* s and t hold the same records the same number of times.
SameBag(s, t) ==
    /\ Len(s) = Len(t)
    /\ \A x \in Range(s) \cup Range(t) : Occ(s, x) = Occ(t, x)

\* The records held anywhere: anchored, in the chunk being submitted, buffered.
Everywhere == anchored \o batch \o mempool

\* C1: every transaction submit_tx has accepted is in exactly one of the
\* mempool, the chunk being submitted and the anchored chunks: it occurs
\* somewhere (not dropped) and no record occurs twice (not duplicated).
C1_ExactlyOnePlace ==
    LET held == Range(Everywhere)
    IN /\ accepted \subseteq held
       /\ Cardinality(held) = Len(Everywhere)

\* A chunk is in flight after an earlier chunk was anchored and another
\* failed, with accepted transactions in all three places.
C1_Witness ==
    /\ pc_flush = "posting"
    /\ anchored # <<>>
    /\ last_failed # <<>>
    /\ mempool # <<>>
    /\ Range(mempool) \cap accepted # {}

\* C2, as claimed: after a failed anchor submission the mempool holds the
\* same multiset as before the cycle and has its pre-drain length.
C2_Original ==
    event = "anchor_fail" => SameBag(mempool, pre_drain)

\* C2, amended: after a failed anchor submission the mempool holds the
\* multiset it held before the cycle together with the records submit_tx
\* stored while the submission was in flight, each once; its length is the
\* pre-drain length plus the number of those records.
C2_FailureRestores ==
    event = "anchor_fail" =>
        /\ SameBag(mempool, pre_drain \o flight_appends)
        /\ Len(mempool) = Len(pre_drain) + Len(flight_appends)
        /\ (flight_appends = <<>> => mempool = pre_drain)

\* A submission of a full chunk failed while a record arrived.
C2_Witness ==
    /\ event = "anchor_fail"
    /\ flight_appends # <<>>
    /\ Len(pre_drain) > ChunkSize

\* C3: when an anchor submission fails, the drained chunk is put back at
\* the head of the mempool in its original order, ahead of every record in
\* the mempool at that moment, the ones stored during the flight included.
C3_RequeueAtHead ==
    event = "anchor_fail" =>
        LET k == Len(last_failed)
        IN /\ k >= 1
           /\ IsPrefix(last_failed, mempool)
           /\ last_failed = SubSeq(pre_drain, 1, k)
           /\ SubSeq(mempool, k + 1, Len(mempool))
                = SubSeq(pre_drain, k + 1, Len(pre_drain)) \o flight_appends

\* A chunk was requeued ahead of older records it left behind and of a
\* record stored during the flight.
C3_Witness ==
    /\ event = "anchor_fail"
    /\ Len(flight_appends) = 1
    /\ Len(mempool) > Len(last_failed) + 1

\* C4: a cycle that is not skipped drains the min(100, n) oldest records of
\* a mempool of length n, in order, and leaves the others in order; the
\* mempool length right after the drain is max(0, n - 100).
C4_DrainPrefix ==
    event = "flush_post" =>
        LET n == Len(pre_drain)
            k == IF n < 100 THEN n ELSE 100
        IN /\ Len(batch) = k
           /\ batch = SubSeq(pre_drain, 1, k)
           /\ mempool = SubSeq(pre_drain, k + 1, n)
           /\ Len(mempool) = (IF n - 100 > 0 THEN n - 100 ELSE 0)
           /\ anchor_req.leaf_count = k

\* 150 buffered: the cycle drained 100 and left 50.
C4_Witness ==
    /\ event = "flush_post"
    /\ Len(pre_drain) = 150
    /\ Len(batch) = 100
    /\ Len(mempool) = 50

\* C5: a batch_flush cycle that starts with an empty mempool or with the
\* node not Online does nothing: no drain, no digest, no submission; the
\* mempool, tx_count and batches_submitted are unchanged.
C5_SkipDoesNothing ==
    [][(/\ pc_flush = "sleep"
        /\ event' \in {"flush_skip", "flush_post"}
        /\ (mempool = <<>> \/ ~heavy_online))
       => /\ event' = "flush_skip"
          /\ UNCHANGED <<mempool, tx_count, batches_submitted, batch,
                         anchor_req, pc_flush, anchored>>]_vars

\* A cycle was skipped with the node Online, the mempool being empty.
C5_Witness ==
    /\ event = "flush_skip"
    /\ heavy_online
    /\ mempool = <<>>
    /\ anchored # <<>>

\* C6: an anchor submission and an advertisement POST are initiated only
\* with the liveness flag Online; a cycle started while the node is not
\* Online (from a failed probe to the next successful one) is skipped.
C6_OnlyWhenOnline ==
    /\ event \in {"flush_post", "adv_post"} => heavy_online
    /\ (~heavy_online /\ event \in {"flush_post", "flush_skip"})
          => event = "flush_skip" /\ pc_flush = "sleep"
    /\ (~heavy_online /\ event \in {"adv_post", "adv_skip"})
          => event = "adv_skip" /\ pc_adv = "sleep"

\* After a heartbeat and then a failed probe, the Advertiser skipped its
\* cycle while transactions were buffered.
C6_Witness ==
    /\ event = "adv_skip"
    /\ shadow_mode
    /\ last_heavy_heartbeat > 0
    /\ mempool # <<>>

\* C7: a transaction of a chunk answered with HTTP 200 is never in the
\* mempool again and never in a later anchor submission.
C7_AnchoredNeverAgain ==
    Range(anchored) \cap (Range(mempool) \cup Range(batch)) = {}

\* A second chunk is being submitted after the first was anchored.
C7_Witness ==
    /\ event = "flush_post"
    /\ Len(anchored) = ChunkSize
    /\ last_failed = <<>>

\* C8: after a failed anchor submission the next submission begins with
\* the failed chunk, same ids in the same order; when the failed chunk was
\* a full one the next chunk is that chunk, and nothing behind it is sent.
C8_RetrySameChunk ==
    (pc_flush = "posting" /\ last_failed # <<>>) =>
        /\ IsPrefix(last_failed, batch)
        /\ anchor_req.leaf_count >= Len(last_failed)
        /\ (Len(last_failed) = 100 =>
              /\ batch = last_failed
              /\ anchor_req.batch_root = [sha256 |-> last_failed])

\* A full chunk that failed is being resubmitted while newer records wait.
C8_Witness ==
    /\ event = "flush_post"
    /\ Len(last_failed) = ChunkSize
    /\ Len(mempool) > 50

\* C9: batches_submitted is the number of anchor submissions answered with
\* HTTP 200: such a response adds exactly 1, and no other step changes it.
C9_CountsOkResponses ==
    [][/\ batches_submitted' = ok_responses'
       /\ IF pc_flush = "posting" /\ event' = "anchor_ok"
          THEN batches_submitted' = batches_submitted + 1
          ELSE batches_submitted' = batches_submitted]_vars

\* A submission failed after one had been answered with HTTP 200.
C9_Witness ==
    /\ event = "anchor_fail"
    /\ batches_submitted = 1
    /\ ok_responses = 1

\* C10: the liveness state after a probe depends only on the probe's
\* outcome: HTTP 200 sets it Online and stamps the heartbeat; any other
\* outcome sets it Shadow and leaves the heartbeat as it was.
C10_ProbeDecidesState ==
    [][(pc_monitor = "probing" /\ pc_monitor' = "sleep") =>
         \/ /\ event' = "probe_ok"
            /\ heavy_online' /\ ~shadow_mode'
            /\ last_heavy_heartbeat' = now
         \/ /\ event' = "probe_fail"
            /\ ~heavy_online' /\ shadow_mode'
            /\ last_heavy_heartbeat' = last_heavy_heartbeat]_vars

\* A probe failed after an earlier one had succeeded: Shadow, with the
\* heartbeat of the earlier probe kept.
C10_Witness ==
    /\ event = "probe_fail"
    /\ shadow_mode /\ ~heavy_online
    /\ last_heavy_heartbeat > 0
    /\ last_heavy_heartbeat < now

\* C11: entry into Shadow is logged once per Online-to-Shadow transition:
\* a failed probe logs the warning exactly when the node was Online before
\* it, so of a run of failed probes that follows an Online state the first
\* logs it and the others log nothing; no other step logs it.
C11_ShadowEntryLoggedOnce ==
    [][/\ (pc_monitor = "probing" /\ event' = "probe_fail")
            => /\ logged' \in {"entering_shadow", "none"}
               /\ (logged' = "entering_shadow") = heavy_online
               /\ ~heavy_online'
       /\ logged' = "entering_shadow"
            => pc_monitor = "probing" /\ event' = "probe_fail"]_vars

\* The second failed probe in a row after a heartbeat logged nothing.
C11_Witness ==
    /\ event = "probe_fail"
    /\ logged = "none"
    /\ last_heavy_heartbeat > 0
    /\ now = last_heavy_heartbeat + 2

\* C12, as claimed: a successful probe logs the recovery exactly when the
\* node was not Online before it (once per Shadow-to-Online transition),
\* and logs nothing when the node was already Online.
C12_Original ==
    [][(pc_monitor = "probing" /\ event' = "probe_ok")
          => (logged' = "recovered") = ~heavy_online]_vars

\* C13, as claimed: the node is in exactly one of Online and Shadow, from
\* process start on: shadow_mode is set exactly when heavy_online is not.
C13_Original ==
    shadow_mode = ~heavy_online

\* C14: from process start until the first probe answered with HTTP 200
\* the node is not Online, and the Anchoring Loop and the Advertiser skip
\* every cycle: nothing is drained, sent, advertised or counted, however
\* many transactions are buffered.
C14_OfflineUntilFirstHeartbeat ==
    last_heavy_heartbeat = 0 =>
        /\ ~heavy_online
        /\ event \notin {"flush_post", "adv_post", "anchor_ok", "anchor_fail"}
        /\ pc_flush = "sleep" /\ pc_adv = "sleep"
        /\ batch = <<>> /\ anchor_req = NoReq /\ adv_req = NoReq
        /\ anchored = <<>> /\ batches_submitted = 0
        /\ Len(mempool) = tx_count

\* An anchoring cycle was skipped with 150 or more records buffered, after
\* a failed probe and before any heartbeat.
C14_Witness ==
    /\ event = "flush_skip"
    /\ last_heavy_heartbeat = 0
    /\ shadow_mode
    /\ Len(mempool) >= 150

\* C15: heavy_online, shadow_mode and the heartbeat are written only by the
\* Liveness Monitor's handling of a probe outcome: every other step
\* (submit_tx, batch_flush and advertise_to_heavy, succeeding or failing)
\* leaves them unchanged.
C15_OnlyMonitorWritesLiveness ==
    [][\/ pc_monitor = "probing" /\ event' \in {"probe_ok", "probe_fail"}
       \/ UNCHANGED <<heavy_online, shadow_mode, last_heavy_heartbeat>>]_vars

\* A failed advertisement left the node Online.
C15_Witness ==
    /\ event = "adv_failed"
    /\ logged = "advertise_failed"
    /\ heavy_online /\ ~shadow_mode

\* C16: a submit_tx request whose record lacks a required field is answered
\* 400, is assigned no id, and leaves the mempool and tx_count unchanged.
C16_MissingFieldRejected ==
    [][request' = "missing_field"
          => /\ response'.status = 400
             /\ response'.tx_id = NoId
             /\ event' = "tx_400"
             /\ UNCHANGED <<mempool, tx_count, uuid_next, accepted>>]_vars

\* A record without a required field was refused while a chunk was in flight.
C16_Witness ==
    /\ request = "missing_field"
    /\ response.status = 400
    /\ pc_flush = "posting"
    /\ Len(mempool) = tx_count - ChunkSize

\* C17, as claimed: a request with all required fields is answered
\* "accepted" in every state, appends one record at the tail, adds 1 to
\* tx_count and returns the stored id; tx_count never decreases and always
\* equals the number of accepted transactions.
C17_Original ==
    [][/\ request' \in {"valid", "bad_sender"}
            => /\ response'.body = "accepted"
               /\ mempool' = Append(mempool, response'.tx_id)
               /\ tx_count' = tx_count + 1
       /\ tx_count' >= tx_count
       /\ tx_count' = Cardinality(accepted')]_vars

\* C18: every id submit_tx returns differs from every id returned before
\* and is the node's own (an id the caller supplied is overwritten): no two
\* records in the mempool, in flight or anchored share an id.
C18_IdsUnique ==
    /\ Cardinality(Range(mempool) \cup Range(batch))
          = Len(mempool) + Len(batch)
    /\ event \in {"tx_accepted", "tx_stored_500"} =>
          LET id == mempool[Len(mempool)]
          IN /\ id = uuid_next - 1
             /\ id \notin Range(anchored) \cup Range(batch)
             /\ id \notin Range(SubSeq(mempool, 1, Len(mempool) - 1))
             /\ event = "tx_accepted" => response.tx_id = id

\* A record was accepted and given a new id while records with other ids
\* were buffered and anchored.
C18_Witness ==
    /\ event = "tx_accepted"
    /\ response.tx_id = 151
    /\ anchored # <<>>
    /\ Len(mempool) > 1

\* C19: a transaction accepted while an anchor submission is in flight is
\* not blocked (the accept is enabled during the flight) and not lost: once
\* the submission has ended, with HTTP 200 or with a failure, it is in the
\* mempool exactly once.
C19_AcceptsDuringFlight ==
    /\ (pc_flush = "posting" /\ budget > 0) => ENABLED submit_tx("valid", NoId)
    /\ event \in {"anchor_ok", "anchor_fail"} =>
          \A i \in 1..Len(flight_appends) : Occ(mempool, flight_appends[i]) = 1

\* A submission ended with HTTP 200 after a transaction was accepted
\* during its flight.
C19_Witness ==
    /\ event = "anchor_ok"
    /\ flight_appends # <<>>
    /\ Range(flight_appends) \subseteq accepted
    /\ Range(flight_appends) \subseteq Range(mempool)

\* What the end of the process took: the chunk being submitted and the
\* records still buffered.
LostRecords == Range(lost.chunk) \cup Range(lost.buffered)

\* The chunk being submitted: one at most, of 1 to 100 records, with the
\* leaf_count sent equal to its size.
OneChunkOutstanding ==
    running =>
        /\ pc_flush = "posting" =>
              /\ Len(batch) >= 1 /\ Len(batch) <= 100
              /\ anchor_req.kind = "batch_anchor"
              /\ anchor_req.leaf_count = Len(batch)
        /\ pc_flush = "sleep" => batch = <<>> /\ anchor_req = NoReq

\* C20, as claimed: at most one drained chunk is outstanding, of 1 to 100
\* transactions, with leaf_count its size, and the end of the process at
\* any point loses at most the transactions of that chunk.
C20_Original ==
    /\ OneChunkOutstanding
    /\ ~running => LostRecords \subseteq Range(lost.chunk)

\* C20, amended: at most one drained chunk is outstanding, of 1 to 100
\* transactions, with leaf_count its size; the end of the process at any
\* point loses that chunk together with every transaction still in the
\* mempool: every accepted transaction not yet anchored, and no other.
C20_OneChunkOutstanding ==
    /\ OneChunkOutstanding
    /\ ~running =>
          /\ Len(lost.chunk) <= 100
          /\ accepted \ Range(anchored) \subseteq LostRecords
          /\ LostRecords \cap Range(anchored) = {}

\* The process ended with a chunk in flight, records buffered behind it
\* and an earlier chunk anchored.
C20_Witness ==
    /\ ~running
    /\ lost.chunk # <<>>
    /\ lost.buffered # <<>>
    /\ anchored # <<>>

\* The steps that begin an iteration of one of the three loops: the sleep
\* has returned and the cycle's work is done or skipped.
IterationStarts == {"probe_sent", "flush_skip", "flush_post", "adv_skip",
                    "adv_post"}

\* C21, as claimed: after a shutdown request no new loop iteration is
\* started, and an anchor submission in flight at that moment completes or
\* times out, its outcome (anchored or requeued) applied, before the
\* process ends: the process never ends with a chunk still in flight.
C21_Original ==
    [][/\ (exit_timer = "armed" /\ running') => event' \notin IterationStarts
       /\ (exit_timer = "armed" /\ running /\ ~running')
             => pc_flush = "sleep" /\ batch = <<>>]_vars

\* C22: no upstream outcome stops a loop.  Whatever the outcomes so far
\* (200, another status, a timeout or connection error), none of the three
\* loops has ended: each is asleep with its next iteration able to start,
\* or awaits an outcome; an exchange that has just failed has left its loop
\* asleep again.
C22_LoopsNeverStop ==
    /\ pc_monitor \in {"sleep", "probing"}
    /\ pc_flush \in {"sleep", "posting"}
    /\ pc_adv \in {"sleep", "posting"}
    /\ (pc_monitor = "sleep" /\ now <= MaxProbes) => ENABLED monitor_probe
    /\ pc_flush = "sleep" => ENABLED flush_cycle
    /\ pc_adv = "sleep" => ENABLED advertise_cycle
    /\ event = "probe_fail" => pc_monitor = "sleep"
    /\ event = "anchor_fail" => pc_flush = "sleep"
    /\ event = "adv_failed" => pc_adv = "sleep"

\* The probe, the anchor submission and the advertisement have all failed,
\* the advertisement last, and the three loops are asleep again.
C22_Witness ==
    /\ event = "adv_failed"
    /\ last_failed # <<>>
    /\ shadow_mode /\ last_heavy_heartbeat > 0
    /\ pc_monitor = "sleep" /\ pc_flush = "sleep" /\ pc_adv = "sleep"

\* C23: get_mempool answers with the last min(50, n) records of a mempool
\* of length n, in mempool order, and with the count n; it changes neither
\* the mempool nor a counter nor anything else the node holds.
C23_SnapshotIsTail ==
    [][event' = "mempool_read" =>
         LET n == Len(mempool)
             k == IF n < 50 THEN n ELSE 50
         IN /\ snapshot'.given
            /\ snapshot'.count = n
            /\ Len(snapshot'.transactions) = k
            /\ \A i \in 1..k : snapshot'.transactions[i] = mempool[n - k + i]
            /\ UNCHANGED <<mempool, tx_count, batches_submitted, batch,
                           heavy_online, shadow_mode, last_heavy_heartbeat,
                           accepted, anchored>>]_vars

\* A snapshot of a mempool of 51 records, a chunk being in flight: the
\* count is 51 and the 50 records given are the 2nd to the 51st.
C23_Witness ==
    /\ event = "mempool_read"
    /\ snapshot.count = 51
    /\ Len(snapshot.transactions) = 50
    /\ snapshot.transactions[1] = mempool[2]
    /\ snapshot.transactions[50] = mempool[51]
    /\ pc_flush = "posting"

\* C24: every advertisement sent carries capacity_percent = max(0, 100 - L),
\* L being the mempool length when the record is built; the value is an
\* integer in 0..100, and it is 0 when 100 or more records are buffered.
C24_CapacityClamped ==
    /\ event = "adv_post" =>
          LET L == Len(mempool)
          IN /\ adv_req.capacity_percent = (IF 100 - L > 0 THEN 100 - L ELSE 0)
             /\ L >= 100 => adv_req.capacity_percent = 0
    /\ adv_req # NoReq =>
          /\ adv_req.kind = "advertise"
          /\ adv_req.capacity_percent \in 0..100

\* An advertisement was built with more than 100 records buffered: it
\* carries capacity 0.
C24_Witness ==
    /\ event = "adv_post"
    /\ Len(mempool) > 100
    /\ adv_req.capacity_percent = 0

\* C25: from a 200 answer listing candidates, the address adopted is that
\* of the candidate with the maximum reputation_score (an absent score
\* counting as 0) and, of several with the maximum, of the first listed.
C25_AdoptsFirstBest ==
    (discovered.outcome = "200" /\ discovered.kind = "list"
       /\ discovered.ads # <<>>) =>
        LET ads == discovered.ads
            top == {i \in 1..Len(ads) :
                      \A j \in 1..Len(ads) : Score(ads[j]) <= Score(ads[i])}
            first == CHOOSE i \in top : \A j \in top : i <= j
        IN ~Lacks(ads[first], "aggregator_addr") =>
              /\ aggregator_addr = ads[first].aggregator_addr
              /\ light_event \in {"selected", "selected_log_failed"}

\* Two candidates share the maximum score and the first one's address
\* was adopted, not the second's.
C25_Witness ==
    /\ light_event = "selected"
    /\ Len(discovered.ads) = 2
    /\ discovered.ads[1].reputation_score = 9
    /\ discovered.ads[2].reputation_score = 9
    /\ discovered.ads[1].aggregator_addr = "C"
    /\ discovered.ads[2].aggregator_addr = "A"
    /\ aggregator_addr = "C"

\* C26: whenever a discovery query is answered with a list of candidates,
\* the active address becomes the best candidate's whatever the selection
\* was before: the earlier address survives only if it is the address the
\* answer selects, and a selection is never kept against the answer.
C26_ReplacesPriorSelection ==
    [][(pc_watch \in {"init_discover", "discover"} /\ pc_watch' = "sleep"
          /\ discovered'.outcome = "200" /\ discovered'.kind = "list"
          /\ discovered'.ads # <<>>
          /\ ~Lacks(BestOf(discovered'.ads), "aggregator_addr"))
        => /\ aggregator_addr' = BestOf(discovered'.ads).aggregator_addr
           /\ aggregator_addr' \in
                 {discovered'.ads[i].aggregator_addr :
                     i \in 1..Len(discovered'.ads)}
           /\ prior_addr' = aggregator_addr]_vars

\* The node held B; the answer listed only C, with the lowest score, and C
\* replaced B.
C26_Witness ==
    /\ prior_addr = "B"
    /\ Len(discovered.ads) = 1
    /\ discovered.ads[1].aggregator_addr = "C"
    /\ discovered.ads[1].reputation_score = 1
    /\ aggregator_addr = "C"

\* C27: a discovery query answered 200 with an empty list or with no list
\* (null) leaves the active aggregator address exactly as it was.
C27_EmptyKeepsSelection ==
    (discovered.outcome = "200"
       /\ (discovered.kind = "null"
             \/ (discovered.kind = "list" /\ discovered.ads = <<>>))) =>
        /\ aggregator_addr = prior_addr
        /\ light_event = "no_candidates"

\* The node held B and the registry answered with an empty list.
C27_Witness ==
    /\ light_event = "no_candidates"
    /\ discovered.kind = "list"
    /\ prior_addr = "B"
    /\ aggregator_addr = "B"

\* An IP service's answer counts as a success: status 200 and a body that,
\* stripped, is not empty and shorter than 40 characters.
ServiceSucceeds(ans) ==
    /\ ans.status = "200"
    /\ Strip(ans.text) # <<>>
    /\ Len(Strip(ans.text)) < 40

\* The resolver's candidates in their order of priority, each with whether
\* it succeeds in net_env and the address it then gives.
ResolverCandidates ==
    <<[name |-> "PUBLIC_ADDR", ok |-> net_env.public_addr # <<>>,
       addr |-> net_env.public_addr],
      [name |-> "svc1", ok |-> ServiceSucceeds(net_env.svc1),
       addr |-> Strip(net_env.svc1.text)],
      [name |-> "svc2", ok |-> ServiceSucceeds(net_env.svc2),
       addr |-> Strip(net_env.svc2.text)],
      [name |-> "socket", ok |-> net_env.socket_ok, addr |-> LanAddr],
      [name |-> "hostname", ok |-> net_env.hostname_ok, addr |-> HostAddr],
      [name |-> "loopback", ok |-> TRUE, addr |-> Loopback]>>

\* C28: the resolver returns the result of the first candidate that
\* succeeds in the order PUBLIC_ADDR, first service, second service,
\* socket, hostname, loopback.  A configured address is returned with no
\* probe made; the probes made are exactly those of the candidates before
\* the winner and of the winner, so no lower candidate is tried or returned
\* once a higher one has succeeded.
C28_FirstSuccessWins ==
    pc_resolve = "done" =>
        LET c == ResolverCandidates
            first == CHOOSE i \in 1..6 : c[i].ok /\ \A j \in 1..(i - 1) : ~c[j].ok
            order == <<"svc1", "svc2", "socket", "hostname">>
        IN /\ public_ip = c[first].addr
           /\ resolved_by = c[first].name
           /\ first = 1 => probes = <<>>
           /\ probes = SubSeq(order, 1, (IF first < 5 THEN first ELSE 5) - 1)

\* The first service answered 200 with 40 characters, the second with an
\* address inside whitespace: the second service's address was returned
\* although the socket and the hostname would have succeeded.
C28_Witness ==
    /\ pc_resolve = "done"
    /\ resolved_by = "svc2"
    /\ net_env.svc1.status = "200" /\ Len(net_env.svc1.text) = 40
    /\ Len(net_env.svc2.text) = 9
    /\ public_ip = Digits(7)
    /\ net_env.socket_ok /\ net_env.hostname_ok
    /\ probes = <<"svc1", "svc2">>

\* C29: whatever fails (a timeout or exception, a status other than 200,
\* an empty or over-long body, the socket, the hostname), resolution never
\* raises: until it has returned it can go on, it returns an address, and
\* when every candidate fails that address is 127.0.0.1.
C29_NeverRaises ==
    /\ pc_resolve \in {"start", "svc1", "svc2", "done"}
    /\ pc_resolve # "done" => ENABLED ResolverNext
    /\ pc_resolve = "done" =>
          /\ public_ip # <<>>
          /\ (/\ net_env.public_addr = <<>>
              /\ ~ServiceSucceeds(net_env.svc1)
              /\ ~ServiceSucceeds(net_env.svc2)
              /\ ~net_env.socket_ok
              /\ ~net_env.hostname_ok)
                => /\ public_ip = Loopback
                   /\ resolved_by = "loopback"

\* The first service timed out, the second answered with 40 characters,
\* the socket and the hostname lookup raised: 127.0.0.1 was returned.
C29_Witness ==
    /\ pc_resolve = "done"
    /\ net_env.svc1.status = "exception"
    /\ net_env.svc2.status = "200" /\ Len(net_env.svc2.text) = 40
    /\ probes = <<"svc1", "svc2", "socket", "hostname">>
    /\ public_ip = Loopback

FirstConfigured(keys_str) ==
    LET pieces == Split(keys_str)
        named == {i \in 1..Len(pieces) : Strip(pieces[i]) # <<>>}
    IN Strip(pieces[CHOOSE i \in named : \A j \in named : i <= j])

\* C31, as claimed: when API keys are configured, every authenticated
\* outbound call (here the anchor submission and the advertisement) carries
\* Authorization: Bearer <key> with the first configured key, the same key
\* on every call; when no key is configured, it carries no Authorization
\* header.
C31_Original ==
    LET expected == IF load_api_keys(API_KEYS) = {} THEN NoHeader
                    ELSE BearerPrefix \o FirstConfigured(API_KEYS)
    IN /\ anchor_req # NoReq => anchor_req.auth = expected
       /\ adv_req # NoReq => adv_req.auth = expected

\* The sync exchange got no proof: a status other than 200, a transport
\* error, or a 200 whose proof has no payload.
GotNoProof(seen) ==
    \/ seen.outcome \in {"non200", "exception"}
    \/ /\ seen.outcome = "200"
       /\ seen.kind = "proof"
       /\ (Lacks(seen.proof, "proof_data") \/ seen.proof.proof_data = <<>>)

\* C32: a state-sync attempt that receives an empty proof payload, a status
\* other than 200 or a transport error is a skipped cycle: the synced
\* height, the synced root and the sync time keep their values, nothing is
\* raised, and the watch task goes on to its next step.
C32_FailedSyncSkips ==
    [][GotNoProof(sync_seen') =>
         /\ UNCHANGED <<synced_block_height, synced_root_hash, last_sync_time>>
         /\ light_event' = "sync_skipped"
         /\ pc_watch' = IF pc_watch = "init_sync" THEN "init_discover"
                        ELSE IF aggregator_addr = "" THEN "discover"
                        ELSE "sleep"]_vars

\* In the loop, a proof without payload arrived after an earlier proof had
\* been adopted: the adopted values stand and the iteration was counted.
C32_Witness ==
    /\ light_event = "sync_skipped"
    /\ sync_seen.outcome = "200"
    /\ sync_seen.kind = "proof"
    /\ sync_seen.proof.proof_data = <<>>
    /\ sync_seen.proof.root_hash = LongRoot
    /\ synced_block_height = 7
    /\ synced_root_hash = ShortRoot
    /\ last_sync_time = 1
    /\ light_now = 2
    /\ anchors_verified = 1

\* C33, as claimed: a proof is adopted only if the digest computed over its
\* payload agrees with the root it claims: whenever the synced height and
\* root are set from a proof, the computed hash equals that proof's root.
C33_Original ==
    light_event = "synced" =>
        LET p == sync_seen.proof
            root == IF Lacks(p, "root_hash") THEN <<>> ELSE p.root_hash
        IN ComputedHash(p.proof_data) = SubSeq(root, 1, Min(RootPreview, Len(root)))

\* Each record of s was stored before the one after it (ids are given out
\* in the order of storing).
InAcceptanceOrder(s) == \A i \in 1..(Len(s) - 1) : s[i] < s[i + 1]

\* C34: the mempool is always in acceptance order, after any sequence of
\* accepts, drains, successful anchors and failed anchors with requeue; and
\* every anchored or in-flight transaction was accepted before every
\* transaction in the mempool: the anchored chunks, the chunk in flight and
\* the mempool, read one after the other, are in acceptance order.
C34_AcceptanceOrder == InAcceptanceOrder(anchored \o batch \o mempool)

\* A chunk was anchored, the next one failed and was requeued, and a
\* transaction accepted during its flight is behind it at the tail.
C34_Witness ==
    /\ event = "anchor_fail"
    /\ anchored # <<>>
    /\ flight_appends = <<151>>
    /\ mempool[1] = 101
    /\ mempool[Len(mempool)] = 151
    /\ Len(mempool) = 51

\* Nothing is buffered or in flight, and every accepted transaction is in
\* the anchored chunks, where no record occurs twice.
Drained ==
    /\ mempool = <<>>
    /\ batch = <<>>
    /\ accepted \subseteq Range(anchored)
    /\ Cardinality(Range(anchored)) = Len(anchored)

\* C35: with the loops scheduled fairly, if from some point on the probes
\* are answered 200 (the Heavy node stays marked online), every anchor
\* submission is answered 200 and no further transaction is stored, then
\* the mempool becomes empty and every accepted transaction has been
\* anchored exactly once, and it stays so.
C35_EventuallyDrained ==
    <>[](/\ heavy_online
         /\ event \notin {"probe_fail", "anchor_fail", "tx_accepted",
                           "tx_stored_500"})
        => <>[]Drained

\* 151 transactions were accepted and all are anchored, in two chunks.
C35_Witness ==
    /\ Drained
    /\ heavy_online
    /\ Cardinality(accepted) = 151
    /\ Len(anchored) = 151
    /\ batches_submitted = 2
    /\ pc_flush = "sleep"

\* C36, as claimed: a submit_tx request that is not answered "accepted"
\* (invalid JSON, a missing field, an error raised while the record is
\* handled) leaves the mempool and tx_count as they were; a request makes
\* the mempool grow only if it is answered "accepted" with a tx_id.
C36_Original ==
    [][request' # "none" =>
         /\ response'.body # "accepted" => UNCHANGED <<mempool, tx_count>>
         /\ mempool' # mempool =>
               /\ response'.body = "accepted"
               /\ response'.tx_id # NoId]_vars

\* C37: in the watch loop the discovery is run only while no aggregator is
\* selected: an iteration sends the discovery query only if the address is
\* empty, and once the address is not empty (configured, or discovered) no
\* step of a loop iteration changes it, whatever the registry would answer.
C37_SelectionSticks ==
    [][(pc_watch \in {"sleep", "sync", "discover"}) =>
         /\ aggregator_addr # "" => aggregator_addr' = aggregator_addr
         /\ pc_watch' = "discover" => aggregator_addr = ""
         /\ pc_watch = "discover" => prior_addr' = ""]_vars

\* The start-up discovery selected C, and two iterations later, the sync
\* failing, C is still the address.
C37_Witness ==
    /\ pc_watch = "sleep"
    /\ anchors_verified = 2
    /\ aggregator_addr = "C"
    /\ light_event = "sync_skipped"
    /\ sync_seen.outcome = "exception"

\* The discovery exchange ended on a failure path: a status other than
\* 200, a transport error or a body that does not parse, or a best
\* candidate without aggregator_addr or aggregator_node_id.
DiscoveryFailed(d) ==
    \/ d.outcome \in {"non200", "exception"}
    \/ d.outcome = "200" /\ d.kind = "malformed"
    \/ /\ d.outcome = "200" /\ d.kind = "list" /\ d.ads # <<>>
       /\ LET top == {i \in 1..Len(d.ads) :
                         \A j \in 1..Len(d.ads) : Score(d.ads[j]) <= Score(d.ads[i])}
              first == CHOOSE i \in top : \A j \in top : i <= j
          IN \/ Lacks(d.ads[first], "aggregator_addr")
             \/ Lacks(d.ads[first], "aggregator_node_id")

\* C38, as claimed: a discovery attempt that ends on a failure path leaves
\* the Light node's aggregator_addr as it was.
C38_Original ==
    DiscoveryFailed(discovered) => aggregator_addr = prior_addr

\* What the handler registered for a route may do.
HandlerEvents(route) ==
    IF route = "/tx/submit"
    THEN {"tx_400", "tx_500", "tx_accepted", "tx_stored_500"}
    ELSE IF route = "/mempool" THEN {"mempool_read"}
    ELSE IF route = "/shutdown" THEN {"shutdown_requested"}
    ELSE IF route = "/health" THEN {"health_read"}
    ELSE IF route = "/identity" THEN {"identity_read"}
    ELSE {"metrics_read"}

\* C39: with keys configured, a request to a route other than /health and
\* /identity reaches its handler only if its Authorization header is
\* "Bearer " followed (blanks aside) by a key of the set; otherwise it is
\* answered 401 (no header, or not a Bearer header) or 403 (a key not in
\* the set) and changes nothing the node holds.  With no key configured,
\* and for /health and /identity always, the request reaches its handler.
C39_KeyGuardsHandlers ==
    [][http' # NoHttp =>
         LET h == http'.header
             bearer == Len(h) >= 7 /\ SubSeq(h, 1, 7) = BearerPrefix
             known == bearer /\ Strip(SubSeq(h, 8, Len(h))) \in app_keys
         IN IF app_keys = {} \/ http'.route \in {"/health", "/identity"} \/ known
            THEN event' \in HandlerEvents(http'.route)
            ELSE /\ event' = "rejected"
                 /\ response'.status = (IF bearer THEN 403 ELSE 401)
                 /\ UNCHANGED <<mempool, tx_count, batches_submitted,
                                heavy_online, shadow_mode, last_heavy_heartbeat,
                                uuid_next, accepted, exit_timer, running,
                                budget>>]_vars

\* Only a is configured.  A transaction was accepted, and then a submission
\* carrying the key b was answered 403, the mempool still holding the one
\* record.
C39_Witness ==
    /\ app_keys = {<<"a">>}
    /\ event = "rejected"
    /\ http = [route |-> "/tx/submit", header |-> BearerPrefix \o <<"b">>]
    /\ response.status = 403
    /\ mempool = <<1>>
    /\ tx_count = 1

====
